---------------------------- MODULE Spec2Model ----------------------------
(***************************************************************************)
(* A model of the EchoTruth backend (chirag100x/echo-truth): the           *)
(* POST /api/v1/detect request pipeline (bearer authentication, request    *)
(* validation, audio acquisition, normalisation, feature extraction,       *)
(* classification, temp-file cleanup, HTTP error mapping), the LLM         *)
(* response parser, the decision orchestrator and the heuristic            *)
(* classifier.                                                             *)
(*                                                                         *)
(* Conventions.                                                            *)
(*  - Python str values are TLA+ strings; Len, SubSeq and \o act on them.  *)
(*  - Python floats that the code compares or returns are fixed-point      *)
(*    integers: confidences in hundredths (0.55 is 55), pitch_variance     *)
(*    and silence_ratio in 1e-4 (the rounding of extract_features),        *)
(*    avg_volume in 1e-6, the heuristic score in tenths.  NaN is kept as   *)
(*    a separate value because Python's min/max treat it specially.        *)
(*  - A Python call's outcome is a record [kind, exc, ...] with kind       *)
(*    "return" or "raise"; exc is the exception class of a raise.          *)
(*  - The third-party pieces (requests, ffmpeg, librosa, the LLM           *)
(*    providers, the file system, fastapi's HTTPBearer) are the            *)
(*    environment: their outcomes are chosen with \E.                      *)
(***************************************************************************)
EXTENDS Integers, Sequences, FiniteSets, TLC

\* ------------------------------------------------------------------------
\* Python values
\* ------------------------------------------------------------------------

\* A float: v in hundredths, or NaN.
Num(v) == [nan |-> FALSE, v |-> v]
NaN == [nan |-> TRUE, v |-> 0]

\* a < b on floats: every comparison with NaN is False.
PyLt(a, b) == ~a.nan /\ ~b.nan /\ a.v < b.v
PyLe(a, b) == ~a.nan /\ ~b.nan /\ a.v <= b.v

\* min(a, b) and max(a, b): the first argument is kept unless the second
\* one is strictly smaller (larger).
PyMin(a, b) == IF PyLt(b, a) THEN b ELSE a
PyMax(a, b) == IF PyLt(a, b) THEN b ELSE a

\* A JSON value as json.loads returns it: ty is "str" (s), "num" (n, in
\* hundredths), "nan" (the literal NaN, which json.loads accepts), "null",
\* "bool" (n is 0 or 1) or "obj" (a nested object or array).
JStr(s) == [ty |-> "str", s |-> s, n |-> 0]
JNum(n) == [ty |-> "num", s |-> "", n |-> n]
JNaN == [ty |-> "nan", s |-> "", n |-> 0]
JNull == [ty |-> "null", s |-> "", n |-> 0]
JTrue == [ty |-> "bool", s |-> "", n |-> 1]
JObj == [ty |-> "obj", s |-> "", n |-> 0]

\* The outcome of a call.
Return(v) == [kind |-> "return", exc |-> "", val |-> v]
Raise(e) == [kind |-> "raise", exc |-> e, val |-> JNull]

\* Exception classes that are not subclasses of Exception.
BaseOnly == {"KeyboardInterrupt", "SystemExit", "CancelledError"}
IsException(e) == e \notin BaseOnly

\* ------------------------------------------------------------------------
\* str operations
\* ------------------------------------------------------------------------

CharAt(s, i) == SubSeq(s, i, i)

LowerLetters == "abcdefghijklmnopqrstuvwxyz"
UpperLetters == "ABCDEFGHIJKLMNOPQRSTUVWXYZ"

IndexIn(c, letters) ==
    IF \E i \in 1..Len(letters) : CharAt(letters, i) = c
    THEN CHOOSE i \in 1..Len(letters) : CharAt(letters, i) = c
    ELSE 0

UpperChar(c) ==
    LET i == IndexIn(c, LowerLetters) IN IF i = 0 THEN c ELSE CharAt(UpperLetters, i)

LowerChar(c) ==
    LET i == IndexIn(c, UpperLetters) IN IF i = 0 THEN c ELSE CharAt(LowerLetters, i)

RECURSIVE MapChars(_, _, _)
\* what: "upper", "lower" or "space_to_underscore"
MapChars(what, s, i) ==
    IF i > Len(s) THEN ""
    ELSE LET c == CharAt(s, i)
             d == CASE what = "upper" -> UpperChar(c)
                    [] what = "lower" -> LowerChar(c)
                    [] OTHER -> IF c = " " THEN "_" ELSE c
         IN d \o MapChars(what, s, i + 1)

\* s.upper(), s.lower(), s.replace(" ", "_")
PyUpper(s) == MapChars("upper", s, 1)
PyLower(s) == MapChars("lower", s, 1)
ReplaceSpaces(s) == MapChars("space_to_underscore", s, 1)

\* sub in s
Contains(s, sub) ==
    \E i \in 1..(Len(s) - Len(sub) + 1) : SubSeq(s, i, i + Len(sub) - 1) = sub

\* s[:n]
Prefix(s, n) == SubSeq(s, 1, IF Len(s) < n THEN Len(s) ELSE n)

RECURSIVE Rep(_, _)
\* s * n
Rep(s, n) ==
    IF n <= 0 THEN ""
    ELSE IF n % 2 = 0 THEN LET half == Rep(s, n \div 2) IN half \o half
    ELSE s \o Rep(s, n - 1)

Digits == "0123456789"
IsDigits(s) == Len(s) > 0 /\ \A i \in 1..Len(s) : IndexIn(CharAt(s, i), Digits) # 0

RECURSIVE UIntOf(_)
UIntOf(s) ==
    IF Len(s) = 0 THEN 0
    ELSE 10 * UIntOf(SubSeq(s, 1, Len(s) - 1)) + (IndexIn(CharAt(s, Len(s)), Digits) - 1)

RECURSIVE UIntRepr(_)
UIntRepr(n) ==
    IF n < 10 THEN CharAt(Digits, n + 1)
    ELSE UIntRepr(n \div 10) \o CharAt(Digits, (n % 10) + 1)

\* repr of a float given in hundredths: 200 is "2.0", 85 is "0.85", -50 is "-0.5".
FloatRepr(n) ==
    LET a == IF n < 0 THEN -n ELSE n
        frac == a % 100
        fs == IF frac % 10 = 0 THEN UIntRepr(frac \div 10)
              ELSE UIntRepr(frac \div 10) \o UIntRepr(frac % 10)
    IN (IF n < 0 THEN "-" ELSE "") \o UIntRepr(a \div 100) \o "." \o fs

\* float(s) for a str: "nan", or a plain decimal with at most two fraction
\* digits ("0.8", "-1", "2.50"); every other text raises ValueError.
FloatOfStr(s) ==
    LET neg == Len(s) > 0 /\ CharAt(s, 1) = "-"
        body == IF neg THEN SubSeq(s, 2, Len(s)) ELSE s
        dot == IndexIn(".", body)
        ip == IF dot = 0 THEN body ELSE SubSeq(body, 1, dot - 1)
        fp == IF dot = 0 THEN "" ELSE SubSeq(body, dot + 1, Len(body))
        ok == /\ (ip = "" \/ IsDigits(ip))
              /\ (fp = "" \/ IsDigits(fp))
              /\ (ip # "" \/ fp # "")
              /\ Len(fp) <= 2
        fv == IF Len(fp) = 1 THEN 10 * UIntOf(fp) ELSE UIntOf(fp)
        mag == 100 * UIntOf(ip) + fv
    IN IF PyLower(s) = "nan" THEN Return(NaN)
       ELSE IF ok THEN Return(Num(IF neg THEN -mag ELSE mag))
       ELSE Raise("ValueError")

\* float(x) for a JSON value
PyFloat(x) ==
    CASE x.ty = "num" -> Return(Num(x.n))
      [] x.ty = "bool" -> Return(Num(100 * x.n))
      [] x.ty = "nan" -> Return(NaN)
      [] x.ty = "str" -> FloatOfStr(x.s)
      [] OTHER -> Raise("TypeError")

\* str(x) for a JSON value
PyStr(x) ==
    CASE x.ty = "str" -> x.s
      [] x.ty = "num" -> FloatRepr(x.n)
      [] x.ty = "bool" -> IF x.n = 1 THEN "True" ELSE "False"
      [] x.ty = "nan" -> "nan"
      [] x.ty = "null" -> "None"
      [] OTHER -> "{}"

\* ------------------------------------------------------------------------
\* DecisionService._heuristic_classify (decision_service.py)
\* ------------------------------------------------------------------------

\* A FeatureSet as extract_features returns it: silence_ratio and
\* pitch_variance in 1e-4, avg_volume in 1e-6, duration in 1e-2 seconds.
FeatureSet(d, s, v, p) ==
    [duration |-> d, silence_ratio |-> s, avg_volume |-> v, pitch_variance |-> p]

\* pitch_variance < 0.15
PITCH_THRESHOLD == 1500
\* silence_ratio < 0.05
SILENCE_THRESHOLD == 500
\* 0.03 < avg_volume < 0.08
VOLUME_LOW == 30000
VOLUME_HIGH == 80000
\* ai_score += 0.4, 0.3, 0.2 and ai_score >= 0.5, in tenths.  The eight
\* sums the code can form in IEEE doubles (0.0, 0.2, 0.3, 0.4, 0.5,
\* 0.6000000000000001, 0.7, 0.8999999999999999) compare with 0.5 as the
\* tenths compare with 5.
PITCH_WEIGHT == 4
SILENCE_WEIGHT == 3
VOLUME_WEIGHT == 2
AI_SCORE_THRESHOLD == 5
\* confidence = 0.55
HEURISTIC_CONFIDENCE == 55
\* explanation[:240]
MAX_EXPLANATION == 240

AI_GENERATED == "AI_GENERATED"
HUMAN == "HUMAN"

PitchRule(f) == f.pitch_variance < PITCH_THRESHOLD
SilenceRule(f) == f.silence_ratio < SILENCE_THRESHOLD
VolumeRule(f) == VOLUME_LOW < f.avg_volume /\ f.avg_volume < VOLUME_HIGH

\* The score without the volume rule's 0.2.
ai_score_no_volume(f) ==
    (IF PitchRule(f) THEN PITCH_WEIGHT ELSE 0)
    + (IF SilenceRule(f) THEN SILENCE_WEIGHT ELSE 0)

ai_score(f) ==
    (IF PitchRule(f) THEN PITCH_WEIGHT ELSE 0)
    + (IF SilenceRule(f) THEN SILENCE_WEIGHT ELSE 0)
    + (IF VolumeRule(f) THEN VOLUME_WEIGHT ELSE 0)

\* No rule appends its reason.
reasons_none(f) == <<>>

reasons(f) ==
    (IF PitchRule(f) THEN <<"consistent pitch patterns">> ELSE <<>>)
    \o (IF SilenceRule(f) THEN <<"minimal natural pauses">> ELSE <<>>)
    \o (IF VolumeRule(f) THEN <<"normalized volume levels">> ELSE <<>>)

RECURSIVE Join(_, _)
\* sep.join(parts)
Join(sep, parts) ==
    IF Len(parts) = 0 THEN ""
    ELSE IF Len(parts) = 1 THEN parts[1]
    ELSE parts[1] \o sep \o Join(sep, Tail(parts))

SYNTHETIC_TEXT == "synthetic characteristics"
HUMAN_EXPLANATION ==
    "Audio exhibits natural variations in pitch and rhythm consistent with authentic human speech patterns."

\* The comparison of the score turned around.
IsAIScore_inverted(score) == score < AI_SCORE_THRESHOLD

\* The score at which the decision turns to AI_GENERATED.
IsAIScore(score) == score >= AI_SCORE_THRESHOLD

\* A confidence that follows the classification.
heuristic_confidence_scored(classification) ==
    IF classification = AI_GENERATED THEN Num(90) ELSE Num(HEURISTIC_CONFIDENCE)

\* The confidence of the heuristic result.
heuristic_confidence(classification) == Num(HEURISTIC_CONFIDENCE)

heuristic_classify(f) ==
    LET joined == Join(", ", reasons(f))
        isAI == IsAIScore(ai_score(f))
        classification == IF isAI THEN AI_GENERATED ELSE HUMAN
        explanation ==
            IF isAI
            THEN "Audio shows " \o (IF joined = "" THEN SYNTHETIC_TEXT ELSE joined)
                 \o ". Features suggest machine-generated speech patterns."
            ELSE HUMAN_EXPLANATION
    IN [classification |-> classification,
        confidence |-> heuristic_confidence(classification),
        explanation |-> Prefix(explanation, MAX_EXPLANATION)]

\* ------------------------------------------------------------------------
\* AIService._parse_llm_response (ai_service.py)
\* ------------------------------------------------------------------------

\* An LLM reply is a sequence of tokens: the characters "{" and "}", a run
\* of whitespace, a run of other text, or one "key": value member of a JSON
\* object (with its separating comma).  A span of tokens is a JSON document
\* exactly when it is "{", members and whitespace, "}".
LBrace == [t |-> "lbrace", key |-> "", val |-> JNull]
RBrace == [t |-> "rbrace", key |-> "", val |-> JNull]
Space == [t |-> "ws", key |-> "", val |-> JNull]
Text == [t |-> "text", key |-> "", val |-> JNull]
Member(k, v) == [t |-> "member", key |-> k, val |-> v]

\* An optional value: None, or Some(v).
None == [some |-> FALSE, v |-> <<>>]
Some(v) == [some |-> TRUE, v |-> v]

RECURSIVE LStrip(_)
LStrip(s) == IF Len(s) > 0 /\ Head(s).t = "ws" THEN LStrip(Tail(s)) ELSE s
RECURSIVE RStrip(_)
RStrip(s) ==
    IF Len(s) > 0 /\ s[Len(s)].t = "ws" THEN RStrip(SubSeq(s, 1, Len(s) - 1)) ELSE s
\* response.strip()
Strip(s) == RStrip(LStrip(s))

\* response.find("{") and response.rfind("}"), 0-based, -1 when absent
Find(s, t) ==
    IF \E i \in 1..Len(s) : s[i].t = t
    THEN (CHOOSE i \in 1..Len(s) : s[i].t = t /\ \A j \in 1..(i - 1) : s[j].t # t) - 1
    ELSE -1
RFind(s, t) ==
    IF \E i \in 1..Len(s) : s[i].t = t
    THEN (CHOOSE i \in 1..Len(s) : s[i].t = t /\ \A j \in (i + 1)..Len(s) : s[j].t # t) - 1
    ELSE -1

\* response[start:end] for 0 <= start, 0 <= end
Slice(s, start, end) == SubSeq(s, start + 1, IF end > Len(s) THEN Len(s) ELSE end)

\* The members of a token span, whitespace dropped.
Members(s) == SelectSeq(s, LAMBDA tok : tok.t = "member")

\* json.loads(json_str): the object's members in order, or JSONDecodeError.
json_loads(s) ==
    IF /\ Len(s) >= 2
       /\ s[1].t = "lbrace"
       /\ s[Len(s)].t = "rbrace"
       /\ \A i \in 2..(Len(s) - 1) : s[i].t \in {"member", "ws"}
    THEN Return(Members(s))
    ELSE Raise("JSONDecodeError")

\* key in result, result[key] (the last member of that key wins), and
\* result[key] = value
HasKey(d, k) == \E i \in 1..Len(d) : d[i].key = k
GetKey(d, k) ==
    d[CHOOSE i \in 1..Len(d) : d[i].key = k /\ \A j \in (i + 1)..Len(d) : d[j].key # k].val
\* A missing key is set to None instead of the default.
SetDefault_null(d, k, v) == IF HasKey(d, k) THEN d ELSE Append(d, Member(k, JNull))
SetDefault(d, k, v) == IF HasKey(d, k) THEN d ELSE Append(d, Member(k, v))

\* if "confidence" not in result: result["confidence"] = 0.7
DEFAULT_CONFIDENCE == 70
DEFAULT_EXPLANATION == "Classification based on audio feature analysis."

\* Only "AI" is looked for, not "SYNTHETIC".
normalize_classification_ai_only(c) ==
    IF c \in {AI_GENERATED, HUMAN} THEN c
    ELSE IF Contains(c, "AI") THEN AI_GENERATED
    ELSE HUMAN

\* The classification value once uppercased and underscored.
normalize_classification(c) ==
    IF c \in {AI_GENERATED, HUMAN} THEN c
    ELSE IF Contains(c, "AI") \/ Contains(c, "SYNTHETIC") THEN AI_GENERATED
    ELSE HUMAN

\* The confidence left as float() gave it.
clamp_confidence_off(c) == c

\* max(0.0, min(1.0, confidence))
clamp_confidence(c) == PyMax(Num(0), PyMin(Num(100), c))

\* The explanation passed through uncut.
truncate_explanation_off(e) == e

\* str(explanation)[:240]
truncate_explanation(e) == Prefix(e, MAX_EXPLANATION)

\* The span the parser hands to json.loads, or no span.
json_span(response) ==
    LET stripped == Strip(response)
        start == Find(stripped, "lbrace")
        end == RFind(stripped, "rbrace") + 1
    IN IF start = -1 \/ end = 0 THEN None ELSE Some(Slice(stripped, start, end))

\* The body of the try block: an optional result, or the exception raised.
parse_body(response) ==
    LET span == json_span(response)
        loaded == json_loads(span.v)
        d0 == loaded.val
        d1 == SetDefault(d0, "confidence", JNum(DEFAULT_CONFIDENCE))
        d2 == SetDefault(d1, "explanation", JStr(DEFAULT_EXPLANATION))
        c == GetKey(d2, "classification")
        conf == PyFloat(GetKey(d2, "confidence"))
    IN IF ~span.some THEN Return(None)
       ELSE IF loaded.kind = "raise" THEN loaded
       ELSE IF ~HasKey(d0, "classification") THEN Return(None)
       ELSE IF c.ty # "str" THEN Raise("AttributeError")
       ELSE IF conf.kind = "raise" THEN conf
       ELSE Return(Some(
            [classification |-> normalize_classification(ReplaceSpaces(PyUpper(c.s))),
             confidence |-> clamp_confidence(conf.val),
             explanation |-> truncate_explanation(PyStr(GetKey(d2, "explanation")))]))

\* Only except json.JSONDecodeError, without the except Exception after it.
parse_handler_json_only(outcome) ==
    IF outcome.kind = "raise" /\ outcome.exc = "JSONDecodeError" THEN Return(None) ELSE outcome

\* except json.JSONDecodeError: return None / except Exception: return None
parse_handler(outcome) ==
    IF outcome.kind = "raise" /\ (outcome.exc = "JSONDecodeError" \/ IsException(outcome.exc))
    THEN Return(None)
    ELSE outcome

parse_llm_response(response) == parse_handler(parse_body(response))

\* ------------------------------------------------------------------------
\* LLMAdapter.generate (llm_adapter.py), AIService.classify_with_llm,
\* DecisionService.classify and _validate_result
\* ------------------------------------------------------------------------

PROVIDERS == {"openai", "gemini", "groq"}

\* except Exception inside generate
generate_handler(call) ==
    IF call.kind = "raise" /\ IsException(call.exc) THEN Return(None) ELSE call

\* Whether generate reaches one of the provider calls.
CallsProvider(cfg) == cfg.LLM_API_KEY # "" /\ PyLower(cfg.LLM_PROVIDER) \in PROVIDERS

\* generate(prompt), call being the outcome of the provider call if made:
\* Return(None), Return(Some(reply)) or a raise.
generate(cfg, call) ==
    IF cfg.LLM_API_KEY = "" THEN Return(None)
    ELSE IF PyLower(cfg.LLM_PROVIDER) \in PROVIDERS THEN generate_handler(call)
    ELSE Return(None)

\* not response
Falsy(opt) == ~opt.some \/ Len(opt.v) = 0

\* classify_with_llm once generate has returned or raised
classify_with_llm(generated) ==
    IF generated.kind = "raise" THEN generated
    ELSE IF Falsy(generated.val) THEN Return(None)
    ELSE parse_llm_response(generated.val.v)

\* Every parsed result is accepted.
validate_result_any(r) == TRUE

\* _validate_result, for a result the parser built
validate_result(r) ==
    /\ r.classification \in {AI_GENERATED, HUMAN}
    /\ PyLe(Num(0), r.confidence) /\ PyLe(r.confidence, Num(100))
    /\ Len(r.explanation) # 0

\* classify without its last line: nothing is returned after a failed attempt.
fallback_missing(features) == Return(None)

\* What classify does when the LLM attempt gave nothing usable.
fallback(features) == Return(Some(heuristic_classify(features)))

\* classify once the LLM attempt has returned or raised
decide(attempt, features) ==
    IF attempt.kind = "return" /\ attempt.val.some /\ validate_result(attempt.val.v)
    THEN Return(attempt.val)
    ELSE IF attempt.kind = "raise" /\ ~IsException(attempt.exc) THEN attempt
    ELSE fallback(features)

\* DecisionService.classify as a whole
classify(cfg, features, call) == decide(classify_with_llm(generate(cfg, call)), features)

\* ------------------------------------------------------------------------
\* AudioService.decode_base64 (audio_service.py)
\* ------------------------------------------------------------------------

Base64Alphabet == UpperLetters \o LowerLetters \o Digits \o "+/"

\* binascii.Error with its text
B64Error(msg) == [kind |-> "raise", exc |-> "binascii.Error", val |-> JNull, msg |-> msg]

RECURSIVE B64Scan(_, _, _, _)
\* base64.b64decode(s) without validation, as binascii.a2b_base64 scans
\* it: characters outside the alphabet are skipped, a pad sequence that
\* completes a quad ends the scan, and an incomplete last quad is an error.
B64Scan(s, i, quad_pos, pads) ==
    IF i > Len(s)
    THEN IF quad_pos = 0 THEN Return(JNull)
         ELSE IF quad_pos = 1
         THEN B64Error("Invalid base64-encoded string: number of data characters cannot be 1 more than a multiple of 4")
         ELSE B64Error("Incorrect padding")
    ELSE LET c == CharAt(s, i) IN
         IF c = "="
         THEN IF quad_pos >= 2 /\ quad_pos + pads + 1 >= 4
              THEN Return(JNull)
              ELSE B64Scan(s, i + 1, quad_pos, IF quad_pos >= 2 THEN pads + 1 ELSE pads)
         ELSE IF IndexIn(c, Base64Alphabet) = 0
              THEN B64Scan(s, i + 1, quad_pos, pads)
              ELSE B64Scan(s, i + 1, (quad_pos + 1) % 4, 0)

b64decode(s) == B64Scan(s, 1, 0, 0)

\* base64_data.split(",")[1] when "," in base64_data
AfterComma(s) ==
    LET first == IndexIn(",", s)
        rest == SubSeq(s, first + 1, Len(s))
        second == IndexIn(",", rest)
    IN IF first = 0 THEN s
       ELSE IF second = 0 THEN rest ELSE SubSeq(rest, 1, second - 1)

\* An exception in flight inside detect: its class and str(e).
NoExc == [cls |-> "", msg |-> ""]
Exc(cls, msg) == [cls |-> cls, msg |-> msg]

\* decode_base64 up to the write: what it raises, if anything.  write is
\* the outcome of open(...)/f.write(...).
decode_base64(base64_data, write) ==
    LET decoded == b64decode(AfterComma(base64_data)) IN
    IF decoded.kind = "raise"
    THEN Exc("ValueError", "Failed to decode base64 audio: " \o decoded.msg)
    ELSE IF write # "ok"
    THEN Exc("ValueError", "Failed to decode base64 audio: " \o write)
    ELSE NoExc

\* ------------------------------------------------------------------------
\* The request pipeline: state
\* ------------------------------------------------------------------------

VARIABLES
    settings,    \* config.settings: API_KEY, LLM_API_KEY, LLM_PROVIDER
    pc,          \* pc[r]: the step request r is at
    req,         \* req[r]: the Authorization header and the DetectRequest body
    temp_files,  \* temp_files[r]: detect's list of temp paths
    fs,          \* fs[path]: "absent", or the request whose data the file holds
    exc,         \* exc[r]: the exception detect is raising, if any
    features,    \* features[r]: the FeatureSet, once extracted
    llm_out,     \* llm_out[r]: what LLMAdapter.generate returned or raised
    attempt,     \* attempt[r]: what classify_with_llm returned or raised
    result,      \* result[r]: what classify returned
    response,    \* response[r]: the HTTP response
    trace,       \* trace[r]: the pipeline steps performed, in order
    cleaned,     \* cleaned[r]: how many of temp_files the finally loop has handled
    rm_failed    \* rm_failed[r]: the paths whose os.remove raised (a warning is printed)

vars == <<settings, pc, req, temp_files, fs, exc, features, llm_out, attempt,
          result, response, trace, cleaned, rm_failed>>

Reqs == {"r1", "r2"}

\* uuid4()[:8] values that can be minted.
FileIds == {"0a1b2c3d", "4e5f6a7b"}
InputPath(id) == id \o "_input.mp3"
WavPath(id) == id \o "_processed.wav"
Paths == {InputPath(id) : id \in FileIds} \cup {WavPath(id) : id \in FileIds}

\* settings.API_KEY (its default)
API_KEY == "demo-key-12345"

NoHeader == [present |-> FALSE, scheme |-> "", token |-> ""]
Bearer(t) == [present |-> TRUE, scheme |-> "Bearer", token |-> t]
AuthHeaders ==
    {NoHeader, Bearer(API_KEY), Bearer("demo-key-1234"), Bearer("DEMO-KEY-12345"),
     [present |-> TRUE, scheme |-> "Basic", token |-> API_KEY]}

NoStr == [some |-> FALSE, v |-> ""]
\* not x, for an Optional[str]
FalsyStr(o) == ~o.some \/ o.v = ""

UrlSamples == {NoStr, Some(""), Some("https://example.com/speech.mp3")}
Base64Samples ==
    {NoStr, Some(""), Some("QUJD"), Some("QUI"), Some("!!!!"),
     Some("data:audio/mp3;base64,QUJD"), Some("data:audio/mp3;base64,QUI")}

Requests ==
    {[auth |-> a, audio_url |-> u, audio_base64 |-> b] :
        a \in AuthHeaders, u \in UrlSamples, b \in Base64Samples}

NoFeatures == FeatureSet(-1, -1, -1, -1)
FeatureSamples ==
    {FeatureSet(312, 120, 51234, 800),       \* all three rules
     FeatureSet(1000, 2500, 120000, 4200),   \* no rule
     FeatureSet(250, 900, 40000, 100),       \* pitch and volume
     FeatureSet(250, 100, 40000, 9000)}      \* silence and volume

NoOutcome == [kind |-> "none", exc |-> "", val |-> None]
NoResponse == [status |-> 0, detail |-> "", body |-> None]

SettingsSet ==
    {[API_KEY |-> API_KEY, LLM_API_KEY |-> k, LLM_PROVIDER |-> p] :
        k \in {"", "sk-test"}, p \in {"gemini", "OpenAI", "groq", "claude"}}

\* Replies the provider is given to return in the pipeline specification.
ValidReply ==
    <<LBrace, Member("classification", JStr("AI_GENERATED")),
      Member("confidence", JNum(91)), Member("explanation", JStr("Flat pitch.")), RBrace>>
ReplySamples ==
    {ValidReply,
     <<Text, LBrace, Member("classification", JStr("human voice")), RBrace, Text>>,
     <<LBrace, Member("classification", JStr("HUMAN")),
       Member("explanation", JStr("")), RBrace>>,
     <<Text>>}

\* Outcomes of a provider call (_call_openai, _call_gemini, _call_groq).
ProviderCalls(replies) ==
    {Raise("ProviderError"), Return(None), Return(Some(<<>>))}
    \cup {Return(Some(reply)) : reply \in replies}

\* ------------------------------------------------------------------------
\* The request pipeline: steps
\* ------------------------------------------------------------------------

Step(r, name) == trace' = [trace EXCEPT ![r] = Append(@, name)]
Goto(r, where) == pc' = [pc EXCEPT ![r] = where]
Respond(r, status, detail, body) ==
    response' = [response EXCEPT ![r] = [status |-> status, detail |-> detail, body |-> body]]

\* A request arrives at POST /api/v1/detect.
Arrive(r, requests) ==
    /\ pc[r] = "arrive"
    /\ \E q \in requests : req' = [req EXCEPT ![r] = q]
    /\ Goto(r, "auth")
    /\ UNCHANGED <<settings, temp_files, fs, exc, features, llm_out, attempt, result,
                   response, trace, cleaned, rm_failed>>

\* security = HTTPBearer(): with auto_error left on, the scheme itself
\* rejects a request that has no Authorization header or another scheme,
\* before verify_api_key runs.  The status it rejects with is the
\* installed fastapi's: 403 before release 0.122, 401 since.
BearerRejectStatuses == {401, 403}
http_bearer(header) ==
    IF ~header.present THEN Raise("Not authenticated")
    ELSE IF PyLower(header.scheme) # "bearer" THEN Raise("Invalid authentication credentials")
    ELSE Return(Some(header.token))

\* token != settings.API_KEY
TokenMismatch(token, key) == token # key

\* verify_api_key(credentials): the status and detail it raises, or 0.
verify_api_key(credentials, cfg) ==
    IF ~credentials.some THEN [status |-> 401, detail |-> "Missing authorization header"]
    ELSE IF TokenMismatch(credentials.v, cfg.API_KEY)
    THEN [status |-> 401, detail |-> "Invalid API key"]
    ELSE [status |-> 0, detail |-> ""]

\* The Depends(verify_api_key) dependency of detect_voice.
Authenticate(r) ==
    /\ pc[r] = "auth"
    /\ LET scheme == http_bearer(req[r].auth)
           verdict == verify_api_key(scheme.val, settings)
       IN IF scheme.kind = "raise"
          THEN /\ \E st \in BearerRejectStatuses : Respond(r, st, scheme.exc, None)
               /\ Goto(r, "done")
          ELSE IF verdict.status # 0
          THEN Respond(r, verdict.status, verdict.detail, None) /\ Goto(r, "done")
          ELSE Goto(r, "validate") /\ UNCHANGED response
    /\ UNCHANGED <<settings, req, temp_files, fs, exc, features, llm_out, attempt,
                   result, trace, cleaned, rm_failed>>

\* Only a field that is None counts as missing; an empty string does not.
MissingAudio_none_only(q) == ~q.audio_url.some /\ ~q.audio_base64.some

\* not request.audio_url and not request.audio_base64
MissingAudio(q) == FalsyStr(q.audio_url) /\ FalsyStr(q.audio_base64)

\* detect_voice up to controller.detect: the 400, or DetectController().
Validate(r) ==
    /\ pc[r] = "validate"
    /\ IF MissingAudio(req[r])
       THEN /\ Respond(r, 400, "Missing audio: provide either audio_url or audio_base64", None)
            /\ Goto(r, "done")
            /\ UNCHANGED trace
       ELSE /\ Step(r, "controller")
            /\ Goto(r, "mint")
            /\ UNCHANGED response
    /\ UNCHANGED <<settings, req, temp_files, fs, exc, features, llm_out, attempt,
                   result, cleaned, rm_failed>>

\* detect: file_id = str(uuid.uuid4())[:8] and the two temp paths.
MintPaths(r) ==
    /\ pc[r] = "mint"
    /\ \E id \in FileIds :
         temp_files' = [temp_files EXCEPT ![r] = <<InputPath(id), WavPath(id)>>]
    /\ Goto(r, "acquire")
    /\ UNCHANGED <<settings, req, fs, exc, features, llm_out, attempt, result,
                   response, trace, cleaned, rm_failed>>

\* Outcomes of download_audio's requests.get / raise_for_status /
\* iter_content and of its open/write: [exc class or "", text, file written].
DownloadOutcomes ==
    {[cls |-> "", text |-> "", wrote |-> TRUE],
     [cls |-> "RequestException", text |-> "404 Client Error", wrote |-> FALSE],
     [cls |-> "RequestException", text |-> "Connection broken", wrote |-> TRUE],
     [cls |-> "OSError", text |-> "No space left on device", wrote |-> TRUE]}

\* download_audio swallowing every failure.
download_audio_swallow(o) == NoExc

\* download_audio: except requests.RequestException -> ValueError
download_audio(o) ==
    IF o.cls = "" THEN NoExc
    ELSE IF o.cls = "RequestException"
    THEN Exc("ValueError", "Failed to download audio: " \o o.text)
    ELSE Exc(o.cls, o.text)

\* The two branches of step 1 in the other order: base64 first.
AudioSource_base64_first(q) ==
    IF ~FalsyStr(q.audio_base64) THEN "decode"
    ELSE IF ~FalsyStr(q.audio_url) THEN "download"
    ELSE "none"

\* Which source detect acquires the audio from.
AudioSource(q) ==
    IF ~FalsyStr(q.audio_url) THEN "download"
    ELSE IF ~FalsyStr(q.audio_base64) THEN "decode"
    ELSE "none"

\* detect, step 1
Acquire(r) ==
    /\ pc[r] = "acquire"
    /\ LET src == AudioSource(req[r])
           path == temp_files[r][1]
       IN CASE src = "download" ->
                 \E o \in DownloadOutcomes :
                    LET e == download_audio(o) IN
                    /\ fs' = IF o.wrote THEN [fs EXCEPT ![path] = r] ELSE fs
                    /\ exc' = [exc EXCEPT ![r] = e]
                    /\ Goto(r, IF e = NoExc THEN "convert" ELSE "cleanup")
                    /\ Step(r, "download")
            [] src = "decode" ->
                 \E write \in {"ok", "No space left on device"} :
                    LET e == decode_base64(req[r].audio_base64.v, write)
                        opened == b64decode(AfterComma(req[r].audio_base64.v)).kind = "return"
                    IN
                    /\ fs' = IF opened THEN [fs EXCEPT ![path] = r] ELSE fs
                    /\ exc' = [exc EXCEPT ![r] = e]
                    /\ Goto(r, IF e = NoExc THEN "convert" ELSE "cleanup")
                    /\ Step(r, "decode")
            [] OTHER ->
                 /\ exc' = [exc EXCEPT ![r] = Exc("ValueError", "No audio provided")]
                 /\ Goto(r, "cleanup")
                 /\ UNCHANGED <<fs, trace>>
    /\ UNCHANGED <<settings, req, temp_files, features, llm_out, attempt, result,
                   response, cleaned, rm_failed>>

\* Outcomes of ffmpeg's run: exit 0, ffmpeg.Error (a nonzero exit, with
\* or without captured stderr), or another exception (the ffmpeg binary
\* is missing: FileNotFoundError); wrote: an output file was left behind.
ConvertOutcomes ==
    {[cls |-> "", text |-> "", wrote |-> TRUE],
     [cls |-> "ffmpeg.Error", text |-> "Invalid data found when processing input", wrote |-> FALSE],
     [cls |-> "ffmpeg.Error", text |-> "ffmpeg error (see stderr output for detail)", wrote |-> TRUE],
     [cls |-> "FileNotFoundError", text |-> "[Errno 2] No such file or directory: 'ffmpeg'", wrote |-> FALSE]}

\* convert_to_wav: except ffmpeg.Error -> ValueError
convert_to_wav(o) ==
    IF o.cls = "" THEN NoExc
    ELSE IF o.cls = "ffmpeg.Error"
    THEN Exc("ValueError", "Audio conversion failed: " \o o.text)
    ELSE Exc(o.cls, o.text)

\* detect, step 2
Convert(r) ==
    /\ pc[r] = "convert"
    /\ \E o \in ConvertOutcomes :
         LET e == convert_to_wav(o) IN
         /\ fs' = IF o.wrote THEN [fs EXCEPT ![temp_files[r][2]] = r] ELSE fs
         /\ exc' = [exc EXCEPT ![r] = e]
         /\ Goto(r, IF e = NoExc THEN "extract" ELSE "cleanup")
    /\ Step(r, "convert")
    /\ UNCHANGED <<settings, req, temp_files, features, llm_out, attempt, result,
                   response, cleaned, rm_failed>>

\* Outcomes of the librosa/numpy calls of extract_features.
ExtractFailures == {"Input signal length=0 is too small", "Error opening file"}

\* extract_features: except Exception -> ValueError
extract_features(failure) == Exc("ValueError", "Feature extraction failed: " \o failure)

\* detect, step 3
Extract(r, featureSets) ==
    /\ pc[r] = "extract"
    /\ \/ \E f \in featureSets :
            /\ features' = [features EXCEPT ![r] = f]
            /\ Goto(r, "classify")
            /\ UNCHANGED exc
       \/ \E failure \in ExtractFailures :
            /\ exc' = [exc EXCEPT ![r] = extract_features(failure)]
            /\ Goto(r, "cleanup")
            /\ UNCHANGED features
    /\ Step(r, "extract")
    /\ UNCHANGED <<settings, req, temp_files, fs, llm_out, attempt, result,
                   response, cleaned, rm_failed>>

\* detect, step 4, first part: classify -> classify_with_llm -> generate
LLMCall(r, calls) ==
    /\ pc[r] = "classify"
    /\ IF CallsProvider(settings)
       THEN \E call \in calls : llm_out' = [llm_out EXCEPT ![r] = generate(settings, call)]
       ELSE llm_out' = [llm_out EXCEPT ![r] = generate(settings, NoOutcome)]
    /\ trace' = [trace EXCEPT ![r] =
                    @ \o <<"classify">> \o
                    (IF CallsProvider(settings) THEN <<"provider">> ELSE <<>>)]
    /\ Goto(r, "parse")
    /\ UNCHANGED <<settings, req, temp_files, fs, exc, features, attempt, result,
                   response, cleaned, rm_failed>>

\* classify_with_llm after generate: not response, _parse_llm_response
ParseReply(r) ==
    /\ pc[r] = "parse"
    /\ attempt' = [attempt EXCEPT ![r] = classify_with_llm(llm_out[r])]
    /\ Goto(r, "decide")
    /\ UNCHANGED <<settings, req, temp_files, fs, exc, features, llm_out, result,
                   response, trace, cleaned, rm_failed>>

\* classify after the attempt: accept the LLM result, or fall back
Decide(r) ==
    /\ pc[r] = "decide"
    /\ LET d == decide(attempt[r], features[r]) IN
       /\ result' = [result EXCEPT ![r] = d]
       /\ exc' = [exc EXCEPT ![r] = IF d.kind = "raise" THEN Exc(d.exc, "") ELSE NoExc]
    /\ trace' = [trace EXCEPT ![r] =
                    IF attempt[r].kind = "return" /\ attempt[r].val.some
                       /\ validate_result(attempt[r].val.v)
                    THEN @ ELSE Append(@, "heuristic")]
    /\ Goto(r, "cleanup")
    /\ UNCHANGED <<settings, req, temp_files, fs, features, llm_out, attempt,
                   response, cleaned, rm_failed>>

\* The os.path.exists test turned around: an existing file is left alone.
remove_file_inverted(files, path, removed) ==
    IF files[path] # "absent" THEN files ELSE [files EXCEPT ![path] = "absent"]

\* What the finally loop does with one temp file: os.path.exists, then
\* os.remove, which removes the file or raises (a warning is printed).
remove_file(files, path, removed) ==
    IF files[path] = "absent" THEN files
    ELSE IF removed THEN [files EXCEPT ![path] = "absent"] ELSE files

\* The except clause re-raising what os.remove raised.
remove_handler_raise(pending, failure) ==
    IF failure THEN Exc("OSError", "[Errno 13] Permission denied") ELSE pending

\* except Exception around os.remove: the failure is printed, and what
\* detect was returning or raising (pending) stays as it was.
remove_handler(pending, failure) == pending

\* detect's finally block, one temp file at a time; an exception that
\* left the loop would end it.
Cleanup(r) ==
    /\ pc[r] = "cleanup"
    /\ cleaned[r] < Len(temp_files[r])
    /\ LET path == temp_files[r][cleaned[r] + 1] IN
       \E removed \in BOOLEAN :
          LET failure == fs[path] # "absent" /\ ~removed
              pending == remove_handler(exc[r], failure)
          IN /\ fs' = remove_file(fs, path, removed)
             /\ rm_failed' = [rm_failed EXCEPT ![r] = IF failure THEN @ \cup {path} ELSE @]
             /\ exc' = [exc EXCEPT ![r] = pending]
             /\ cleaned' = [cleaned EXCEPT ![r] =
                              IF pending = exc[r] THEN @ + 1 ELSE Len(temp_files[r])]
    /\ UNCHANGED <<settings, pc, req, temp_files, features, llm_out, attempt,
                   result, response, trace>>

\* Whether DetectResponse(**result) validates.
SchemaOK(res) ==
    /\ res.classification \in {AI_GENERATED, HUMAN}
    /\ PyLe(Num(0), res.confidence) /\ PyLe(res.confidence, Num(100))
    /\ Len(res.explanation) <= MAX_EXPLANATION

\* The status detect_voice maps an exception class to.
StatusOf(cls) == IF cls = "ValueError" THEN 422 ELSE 500

\* detect has finished; detect_voice builds the response.
Finish(r) ==
    /\ pc[r] = "cleanup"
    /\ cleaned[r] = Len(temp_files[r])
    /\ IF exc[r] = NoExc
       THEN IF SchemaOK(result[r].val.v)
            THEN Respond(r, 200, "", result[r].val)
            ELSE Respond(r, 422, "validation error for DetectResponse", None)
       ELSE IF StatusOf(exc[r].cls) = 422
       THEN Respond(r, 422, exc[r].msg, None)
       ELSE Respond(r, 500, "Internal server error", None)
    /\ Goto(r, "done")
    /\ UNCHANGED <<settings, req, temp_files, fs, exc, features, llm_out, attempt,
                   result, trace, cleaned, rm_failed>>

\* ------------------------------------------------------------------------
\* Specifications
\* ------------------------------------------------------------------------

NoRequest == [auth |-> NoHeader, audio_url |-> NoStr, audio_base64 |-> NoStr]

\* One request through the whole pipeline.
Init ==
    /\ settings \in SettingsSet
    /\ pc = [r \in Reqs |-> IF r = "r1" THEN "arrive" ELSE "off"]
    /\ req = [r \in Reqs |-> NoRequest]
    /\ temp_files = [r \in Reqs |-> <<>>]
    /\ fs = [p \in Paths |-> "absent"]
    /\ exc = [r \in Reqs |-> NoExc]
    /\ features = [r \in Reqs |-> NoFeatures]
    /\ llm_out = [r \in Reqs |-> NoOutcome]
    /\ attempt = [r \in Reqs |-> NoOutcome]
    /\ result = [r \in Reqs |-> NoOutcome]
    /\ response = [r \in Reqs |-> NoResponse]
    /\ trace = [r \in Reqs |-> <<>>]
    /\ cleaned = [r \in Reqs |-> 0]
    /\ rm_failed = [r \in Reqs |-> {}]

Next ==
    \E r \in Reqs :
       \/ Arrive(r, Requests)
       \/ Authenticate(r)
       \/ Validate(r)
       \/ MintPaths(r)
       \/ Acquire(r)
       \/ Convert(r)
       \/ Extract(r, FeatureSamples)
       \/ LLMCall(r, ProviderCalls(ReplySamples))
       \/ ParseReply(r)
       \/ Decide(r)
       \/ Cleanup(r)
       \/ Finish(r)

Spec == Init /\ [][Next]_vars

\* ---- DecisionService.classify on its own, over every reply ----

\* The longest reply, in tokens, among the replies enumerated token by token.
MaxReplyLen == 4

RECURSIVE SeqsUpTo(_, _)
\* The sequences over S of length at most n.
SeqsUpTo(S, n) ==
    IF n = 0 THEN {<<>>}
    ELSE LET shorter == SeqsUpTo(S, n - 1)
         IN shorter \cup {Append(q, t) : q \in {z \in shorter : Len(z) = n - 1}, t \in S}

StructTokens ==
    {LBrace, RBrace, Space, Text,
     Member("classification", JStr("HUMAN")), Member("confidence", JNum(40))}

\* Replies of any brace structure.
StructReplies == SeqsUpTo(StructTokens, MaxReplyLen)

X240 == Rep("x", MAX_EXPLANATION)

ClassificationValues ==
    {JStr("AI_GENERATED"), JStr("HUMAN"), JStr("ai generated"), JStr("human"),
     JStr("Synthetic voice"), JStr("almost certain"), JStr("real person"),
     JNum(100), JNull}
ConfidenceValues ==
    {JNum(200), JNum(85), JNum(-50), JNum(0), JNum(100),
     JStr("0.8"), JStr("high"), JNull, JNaN, JTrue}
ExplanationValues ==
    {JStr(""), JStr("Flat pitch."), JStr(X240), JStr(X240 \o "y"), JNull, JNum(85)}

\* An optional member: absent, or "key": v for a v of the values.
OptMember(k, values) == {<<>>} \cup {<<Member(k, v)>> : v \in values}

\* Replies holding one well-formed JSON object, with or without text around it.
ObjectReplies ==
    {pre \o <<LBrace>> \o c \o f \o e \o <<RBrace>> \o post :
        pre \in {<<>>, <<Text>>, <<Space>>},
        post \in {<<>>, <<Text>>},
        c \in OptMember("classification", ClassificationValues),
        f \in OptMember("confidence", ConfidenceValues),
        e \in OptMember("explanation", ExplanationValues)}

Replies == StructReplies \cup ObjectReplies

SampleRequest ==
    [auth |-> Bearer(API_KEY), audio_url |-> Some("https://example.com/speech.mp3"),
     audio_base64 |-> NoStr]

\* The state in which detect calls classify: both temp files written,
\* the features extracted.
InitAtClassify(settingsSet, featureSets) ==
    LET id == CHOOSE i \in FileIds : TRUE IN
    /\ settings \in settingsSet
    /\ pc = [r \in Reqs |-> IF r = "r1" THEN "classify" ELSE "off"]
    /\ req = [r \in Reqs |-> IF r = "r1" THEN SampleRequest ELSE NoRequest]
    /\ temp_files = [r \in Reqs |-> IF r = "r1" THEN <<InputPath(id), WavPath(id)>> ELSE <<>>]
    /\ fs = [p \in Paths |-> IF p \in {InputPath(id), WavPath(id)} THEN "r1" ELSE "absent"]
    /\ exc = [r \in Reqs |-> NoExc]
    /\ \E f \in featureSets :
         features = [r \in Reqs |-> IF r = "r1" THEN f ELSE NoFeatures]
    /\ llm_out = [r \in Reqs |-> NoOutcome]
    /\ attempt = [r \in Reqs |-> NoOutcome]
    /\ result = [r \in Reqs |-> NoOutcome]
    /\ response = [r \in Reqs |-> NoResponse]
    /\ trace = [r \in Reqs |->
                  IF r = "r1" THEN <<"controller", "download", "convert", "extract">> ELSE <<>>]
    /\ cleaned = [r \in Reqs |-> 0]
    /\ rm_failed = [r \in Reqs |-> {}]

ClassifyFeatures ==
    {FeatureSet(312, 120, 51234, 800), FeatureSet(1000, 2500, 120000, 4200)}

InitClassify == InitAtClassify(SettingsSet, ClassifyFeatures)

NextClassify ==
    \E r \in Reqs :
       \/ LLMCall(r, ProviderCalls(Replies))
       \/ ParseReply(r)
       \/ Decide(r)

ClassifySpec == InitClassify /\ [][NextClassify]_vars

\* ---- The heuristic classifier over a grid of feature sets ----

\* How far around each threshold the grid of feature values reaches.
FeatSpread == 1

Around(t) == (t - FeatSpread)..(t + FeatSpread)

FeatureGrid ==
    {FeatureSet(d, s, v, p) :
        d \in {0, 312},
        s \in Around(SILENCE_THRESHOLD) \cup {0, 10000},
        v \in Around(VOLUME_LOW) \cup Around(VOLUME_HIGH) \cup {0, 50000, 200000},
        p \in Around(PITCH_THRESHOLD) \cup {0, 10000}}

\* No LLM API key is configured: classify always falls back.
InitHeur ==
    InitAtClassify({c \in SettingsSet : c.LLM_API_KEY = "" /\ c.LLM_PROVIDER = "gemini"},
                   FeatureGrid)

NextHeur ==
    \E r \in Reqs :
       \/ LLMCall(r, ProviderCalls({}))
       \/ ParseReply(r)
       \/ Decide(r)

HeurSpec == InitHeur /\ [][NextHeur]_vars

\* ---- Two requests in two worker processes that share TEMP_DIR ----

ConcFeatures == {FeatureSet(312, 120, 51234, 800)}

\* Both requests have been authenticated and validated, each in the
\* controller of its own process; no LLM API key is configured.
InitConc ==
    /\ settings \in {c \in SettingsSet : c.LLM_API_KEY = "" /\ c.LLM_PROVIDER = "gemini"}
    /\ pc = [r \in Reqs |-> "mint"]
    /\ req = [r \in Reqs |->
                IF r = "r1" THEN SampleRequest
                ELSE [auth |-> Bearer(API_KEY), audio_url |-> NoStr,
                      audio_base64 |-> Some("QUJD")]]
    /\ temp_files = [r \in Reqs |-> <<>>]
    /\ fs = [p \in Paths |-> "absent"]
    /\ exc = [r \in Reqs |-> NoExc]
    /\ features = [r \in Reqs |-> NoFeatures]
    /\ llm_out = [r \in Reqs |-> NoOutcome]
    /\ attempt = [r \in Reqs |-> NoOutcome]
    /\ result = [r \in Reqs |-> NoOutcome]
    /\ response = [r \in Reqs |-> NoResponse]
    /\ trace = [r \in Reqs |-> <<"controller">>]
    /\ cleaned = [r \in Reqs |-> 0]
    /\ rm_failed = [r \in Reqs |-> {}]

NextConc ==
    \E r \in Reqs :
       \/ MintPaths(r)
       \/ Acquire(r)
       \/ Convert(r)
       \/ Extract(r, ConcFeatures)
       \/ LLMCall(r, ProviderCalls({}))
       \/ ParseReply(r)
       \/ Decide(r)
       \/ Cleanup(r)
       \/ Finish(r)

ConcSpec == InitConc /\ [][NextConc]_vars

\* ------------------------------------------------------------------------
\* Properties
\* ------------------------------------------------------------------------

InTrace(r, step) == \E i \in 1..Len(trace[r]) : trace[r][i] = step
Last(q) == q[Len(q)]

\* classify has returned or raised.
ClassifyDone(r) == result[r].kind # "none"

\* The provider's reply that the parser was given, if it was given one.
ParsedReply(r) ==
    llm_out[r].kind = "return" /\ llm_out[r].val.some /\ Len(llm_out[r].val.v) > 0

\* C1: once features are extracted, classify returns a classification
\* result and raises nothing, whatever the LLM attempt did (no key, unknown
\* provider, provider exception, empty or unparsable reply, invalid result).
C1_ClassifyAlwaysReturns ==
    \A r \in Reqs :
       ClassifyDone(r) =>
          /\ result[r].kind = "return"
          /\ result[r].val.some
          /\ exc[r] = NoExc

\* The provider was called, gave no reply (it raised, or returned None),
\* and classify returned a verdict.
C1_Witness ==
    /\ ClassifyDone("r1")
    /\ InTrace("r1", "provider")
    /\ ~llm_out["r1"].val.some
    /\ result["r1"].kind = "return" /\ result["r1"].val.some

\* C2: every result classify returns, from the LLM path or the heuristic
\* path, has classification AI_GENERATED or HUMAN, a confidence in [0, 1]
\* and an explanation of at most 240 characters.
C2_ResultWellFormed ==
    \A r \in Reqs :
       (ClassifyDone(r) /\ result[r].kind = "return" /\ result[r].val.some) =>
          LET res == result[r].val.v IN
          /\ res.classification \in {"AI_GENERATED", "HUMAN"}
          /\ ~res.confidence.nan
          /\ res.confidence.v >= 0 /\ res.confidence.v <= 100
          /\ Len(res.explanation) <= 240

\* An accepted LLM result whose reply had confidence 2 and a 241-character
\* explanation.
C2_Witness ==
    /\ ClassifyDone("r1")
    /\ ~InTrace("r1", "heuristic")
    /\ ParsedReply("r1")
    /\ \E i \in 1..Len(llm_out["r1"].val.v) :
          llm_out["r1"].val.v[i] = Member("explanation", JStr(X240 \o "y"))
    /\ \E i \in 1..Len(llm_out["r1"].val.v) :
          llm_out["r1"].val.v[i] = Member("confidence", JNum(200))
    /\ Len(result["r1"].val.v.explanation) = 240
    /\ result["r1"].val.v.confidence = Num(100)

\* detect has run its finally block to the end.
DetectFinished(r) ==
    /\ temp_files[r] # <<>>
    /\ \/ pc[r] = "cleanup" /\ cleaned[r] = Len(temp_files[r])
       \/ pc[r] = "done"

\* C3 as stated: after detect finishes, by returning or by raising at any
\* step, neither temp file of the request exists.
C3_NoTempFileLeft ==
    \A r \in Reqs :
       DetectFinished(r) =>
          \A i \in 1..Len(temp_files[r]) : fs[temp_files[r][i]] = "absent"

\* C3, amended: after detect finishes, each temp file of the request is
\* gone unless its os.remove raised (for which a warning was printed).
C3_NoTempFileLeftUnlessRemoveFailed ==
    \A r \in Reqs :
       DetectFinished(r) =>
          \A i \in 1..Len(temp_files[r]) :
             \/ fs[temp_files[r][i]] = "absent"
             \/ temp_files[r][i] \in rm_failed[r]

\* detect raised at the conversion step after the input file was written,
\* and both files are gone.
C3_Witness ==
    /\ DetectFinished("r1")
    /\ exc["r1"] # NoExc
    /\ trace["r1"] = <<"controller", "download", "convert">>
    /\ rm_failed["r1"] = {}
    /\ \A p \in Paths : fs[p] = "absent"

\* C4 as stated: a transport or status failure of the download, malformed
\* base64, a nonzero transcoder exit or any transcoding exception, or a
\* feature extraction failure ends the request with 422, the detail being
\* the error text, and no verdict.
C4_ProcessingFailuresAre422 ==
    \A r \in Reqs :
       (/\ pc[r] = "done"
        /\ exc[r] # NoExc
        /\ Last(trace[r]) \in {"download", "decode", "convert", "extract"}
        /\ ~(Last(trace[r]) \in {"download", "decode"} /\ exc[r].cls = "OSError")) =>
          /\ response[r].status = 422
          /\ response[r].detail = exc[r].msg
          /\ ~response[r].body.some

Authenticated(q) ==
    q.auth.present /\ q.auth.scheme = "Bearer" /\ q.auth.token = "demo-key-12345"
Given(o) == o.some /\ o.v # ""
NoPipelineStep(r) ==
    /\ trace[r] = <<>>
    /\ temp_files[r] = <<>>
    /\ \A p \in Paths : fs[p] = "absent"
    /\ llm_out[r].kind = "none"
    /\ result[r].kind = "none"

\* C5: an authenticated request with neither audio_url nor audio_base64
\* gets HTTP 400 with the detail "Missing audio: provide either audio_url
\* or audio_base64", and no pipeline step is performed for it.
C5_MissingAudioIs400 ==
    \A r \in Reqs :
       (/\ pc[r] \notin {"off", "arrive"}
        /\ Authenticated(req[r])
        /\ ~Given(req[r].audio_url) /\ ~Given(req[r].audio_base64)) =>
          /\ NoPipelineStep(r)
          /\ pc[r] \in {"auth", "validate", "done"}
          /\ pc[r] = "done" =>
                response[r] = [status |-> 400,
                               detail |-> "Missing audio: provide either audio_url or audio_base64",
                               body |-> None]

\* An authenticated request with two empty strings was answered 400.
C5_Witness ==
    /\ pc["r1"] = "done"
    /\ Authenticated(req["r1"])
    /\ req["r1"].audio_url = Some("") /\ req["r1"].audio_base64 = Some("")
    /\ response["r1"].status = 400

\* C6 as stated: a request whose bearer token is absent or differs from
\* the configured secret gets HTTP 401, and no part of the pipeline runs.
C6_BadTokenIs401 ==
    \A r \in Reqs :
       (pc[r] = "done" /\ ~Authenticated(req[r])) =>
          /\ response[r].status = 401
          /\ NoPipelineStep(r)

ReachedAcquisition(r) == InTrace(r, "download") \/ InTrace(r, "decode")

\* C7 as stated: every request that reaches audio acquisition carries
\* exactly one of audio_url and audio_base64.
C7_ExactlyOneSource ==
    \A r \in Reqs :
       ReachedAcquisition(r) =>
          (Given(req[r].audio_url) # Given(req[r].audio_base64))

\* C7, amended: every request that reaches audio acquisition carries at
\* least one of audio_url and audio_base64; one that carries both is
\* processed from audio_url and its audio_base64 is never decoded.
C7_AtLeastOneSourceUrlFirst ==
    \A r \in Reqs :
       /\ (pc[r] \in {"mint", "acquire"} \/ ReachedAcquisition(r)) =>
             (Given(req[r].audio_url) \/ Given(req[r].audio_base64))
       /\ ReachedAcquisition(r) =>
             IF Given(req[r].audio_url)
             THEN InTrace(r, "download") /\ ~InTrace(r, "decode")
             ELSE InTrace(r, "decode") /\ ~InTrace(r, "download")

\* A request carrying both fields was downloaded and answered 200.
C7_Witness ==
    /\ pc["r1"] = "done"
    /\ Given(req["r1"].audio_url) /\ Given(req["r1"].audio_base64)
    /\ InTrace("r1", "download")
    /\ response["r1"].status = 200

\* C8: the heuristic returns AI_GENERATED (score 0.9) whenever
\* pitch_variance < 0.15, silence_ratio < 0.05 and 0.03 < avg_volume < 0.08,
\* and HUMAN (score 0.0) whenever pitch_variance >= 0.15,
\* silence_ratio >= 0.05 and avg_volume is outside (0.03, 0.08).
C8_HeuristicExtremes ==
    \A r \in Reqs :
       (ClassifyDone(r) /\ InTrace(r, "heuristic")) =>
          LET f == features[r]
              res == result[r].val.v
          IN /\ (/\ f.pitch_variance < 1500
                 /\ f.silence_ratio < 500
                 /\ 30000 < f.avg_volume /\ f.avg_volume < 80000) =>
                   (res.classification = "AI_GENERATED" /\ ai_score(f) = 9)
             /\ (/\ f.pitch_variance >= 1500
                 /\ f.silence_ratio >= 500
                 /\ (f.avg_volume <= 30000 \/ f.avg_volume >= 80000)) =>
                   (res.classification = "HUMAN" /\ ai_score(f) = 0)

\* The heuristic said AI_GENERATED for features just inside all three rules.
C8_Witness ==
    /\ ClassifyDone("r1")
    /\ InTrace("r1", "heuristic")
    /\ features["r1"].pitch_variance = 1499
    /\ features["r1"].silence_ratio = 499
    /\ features["r1"].avg_volume = 30001
    /\ result["r1"].val.v.classification = "AI_GENERATED"

\* C9: for every FeatureSet the heuristic returns a result, raising
\* nothing, and its confidence is exactly 0.55 whichever classification
\* it chose.
C9_HeuristicConfidence ==
    \A r \in Reqs :
       (ClassifyDone(r) /\ InTrace(r, "heuristic")) =>
          /\ result[r].kind = "return"
          /\ result[r].val.some
          /\ result[r].val.v.confidence = [nan |-> FALSE, v |-> 55]

\* The heuristic said AI_GENERATED, with confidence 0.55.
C9_Witness ==
    /\ ClassifyDone("r1")
    /\ InTrace("r1", "heuristic")
    /\ result["r1"].val.v.classification = "AI_GENERATED"
    /\ result["r1"].val.v.confidence.v = 55

\* The reply has no "{", or no "}", or its tokens from the first "{" to
\* the last "}" are not a JSON document.
NoJsonObject(reply) ==
    LET L == {i \in 1..Len(reply) : reply[i].t = "lbrace"}
        R == {i \in 1..Len(reply) : reply[i].t = "rbrace"}
        first == CHOOSE i \in L : \A j \in L : i <= j
        last == CHOOSE i \in R : \A j \in R : j <= i
    IN \/ L = {}
       \/ R = {}
       \/ last < first
       \/ \E i \in (first + 1)..(last - 1) : reply[i].t \in {"lbrace", "rbrace", "text"}

\* C10: the parser never raises; for a reply with no "{" or no "}", or
\* whose span from the first "{" to the last "}" is not valid JSON (the
\* last "}" may even precede the first "{"), it returns no result and the
\* orchestrator falls back to the heuristic.
C10_ParserNeverRaises ==
    \A r \in Reqs :
       (pc[r] \in {"decide", "cleanup"} /\ ParsedReply(r)) =>
          /\ attempt[r].kind = "return"
          /\ NoJsonObject(llm_out[r].val.v) =>
                /\ ~attempt[r].val.some
                /\ pc[r] = "cleanup" =>
                      /\ InTrace(r, "heuristic")
                      /\ result[r] = Return(Some(heuristic_classify(features[r])))

\* The reply was "}" then "{"; the heuristic's result was returned.
C10_Witness ==
    /\ pc["r1"] = "cleanup"
    /\ ParsedReply("r1")
    /\ llm_out["r1"].val.v = <<RBrace, LBrace>>
    /\ InTrace("r1", "heuristic")
    /\ result["r1"].val.v.confidence.v = 55

\* The members of the JSON object of a reply that has one: the member
\* tokens from its first "{" to its last "}".
SpanMembers(reply) ==
    LET L == {i \in 1..Len(reply) : reply[i].t = "lbrace"}
        R == {i \in 1..Len(reply) : reply[i].t = "rbrace"}
        first == CHOOSE i \in L : \A j \in L : i <= j
        last == CHOOSE i \in R : \A j \in R : j <= i
    IN {reply[i] : i \in {j \in first..last : reply[j].t = "member"}}
ValuesOf(reply, k) == {m.val : m \in {n \in SpanMembers(reply) : n.key = k}}
KeyGiven(reply, k) == ValuesOf(reply, k) # {}

\* The parser has been given the provider's reply and has finished.
Parsed(r) == pc[r] \in {"decide", "cleanup"} /\ ParsedReply(r)

\* C11: for a reply that parses to a JSON object, the parser returns no
\* result when the classification key is absent; when the classification
\* is a string and confidence is absent the result has confidence 0.7;
\* when explanation is absent the result has the generic default
\* explanation.
C11_MissingKeys ==
    \A r \in Reqs :
       (Parsed(r) /\ ~NoJsonObject(llm_out[r].val.v)) =>
          LET reply == llm_out[r].val.v IN
          /\ ~KeyGiven(reply, "classification") =>
                (attempt[r].kind = "return" /\ ~attempt[r].val.some)
          /\ ((\E c \in ValuesOf(reply, "classification") : c.ty = "str")
              /\ ~KeyGiven(reply, "confidence")) =>
                /\ attempt[r].kind = "return" /\ attempt[r].val.some
                /\ attempt[r].val.v.confidence = [nan |-> FALSE, v |-> 70]
          /\ (attempt[r].kind = "return" /\ attempt[r].val.some
              /\ ~KeyGiven(reply, "explanation")) =>
                attempt[r].val.v.explanation
                    = "Classification based on audio feature analysis."

\* The reply was {"classification": "HUMAN"}: the result has both defaults
\* and was accepted.
C11_Witness ==
    /\ pc["r1"] = "cleanup"
    /\ ParsedReply("r1")
    /\ llm_out["r1"].val.v = <<LBrace, Member("classification", JStr("HUMAN")), RBrace>>
    /\ attempt["r1"].val.v.confidence.v = 70
    /\ attempt["r1"].val.v.explanation = "Classification based on audio feature analysis."
    /\ result["r1"] = attempt["r1"]

\* C12: for every reply from which the parser returns a result, the
\* classification is AI_GENERATED when the uppercased, underscored value
\* is AI_GENERATED or contains "AI" or "SYNTHETIC" and HUMAN otherwise,
\* a confidence given as a number is that number clamped into [0, 1], and
\* an explanation given as text is its first 240 characters.
C12_Normalisation ==
    \A r \in Reqs :
       (Parsed(r) /\ attempt[r].kind = "return" /\ attempt[r].val.some) =>
          LET reply == llm_out[r].val.v
              res == attempt[r].val.v
          IN /\ \A c \in ValuesOf(reply, "classification") :
                   LET u == ReplaceSpaces(PyUpper(c.s)) IN
                   res.classification =
                      IF u = "AI_GENERATED" \/ Contains(u, "AI") \/ Contains(u, "SYNTHETIC")
                      THEN "AI_GENERATED" ELSE "HUMAN"
             /\ \A c \in ValuesOf(reply, "confidence") :
                   c.ty = "num" =>
                      res.confidence =
                         [nan |-> FALSE,
                          v |-> IF c.n < 0 THEN 0 ELSE IF c.n > 100 THEN 100 ELSE c.n]
             /\ \A e \in ValuesOf(reply, "explanation") :
                   e.ty = "str" =>
                      res.explanation = SubSeq(e.s, 1, IF Len(e.s) < 240 THEN Len(e.s) ELSE 240)

\* "Synthetic voice" with confidence 2 and 241 characters of explanation
\* became AI_GENERATED, 1.0 and 240 characters.
C12_Witness ==
    /\ Parsed("r1")
    /\ ~NoJsonObject(llm_out["r1"].val.v)
    /\ JStr("Synthetic voice") \in ValuesOf(llm_out["r1"].val.v, "classification")
    /\ JNum(200) \in ValuesOf(llm_out["r1"].val.v, "confidence")
    /\ JStr(X240 \o "y") \in ValuesOf(llm_out["r1"].val.v, "explanation")
    /\ attempt["r1"].val.some
    /\ attempt["r1"].val.v.classification = "AI_GENERATED"
    /\ attempt["r1"].val.v.confidence.v = 100
    /\ attempt["r1"].val.v.explanation = X240

\* The LLM attempt produced a result that passes the validity check.
LLMResultValid(r) ==
    /\ attempt[r].kind = "return"
    /\ attempt[r].val.some
    /\ attempt[r].val.v.classification \in {"AI_GENERATED", "HUMAN"}
    /\ ~attempt[r].val.v.confidence.nan
    /\ attempt[r].val.v.confidence.v >= 0 /\ attempt[r].val.v.confidence.v <= 100
    /\ attempt[r].val.v.explanation # ""

\* C13: classify returns the LLM result exactly when the LLM attempt
\* produced a result that passes the validity check, and then the
\* heuristic is not run; in every other case the heuristic runs, after the
\* attempt, and its result is what classify returns.
C13_Orchestrator ==
    \A r \in Reqs :
       /\ ClassifyDone(r) =>
             IF LLMResultValid(r)
             THEN result[r] = attempt[r] /\ ~InTrace(r, "heuristic")
             ELSE /\ Last(trace[r]) = "heuristic"
                  /\ result[r].kind = "return" /\ result[r].val.some
                  /\ result[r].val.v = heuristic_classify(features[r])
       /\ InTrace(r, "heuristic") => (ClassifyDone(r) /\ attempt[r].kind # "none")
       /\ ~ClassifyDone(r) => ~InTrace(r, "heuristic")

\* A valid LLM result with confidence 0.85 was returned as it was, and the
\* heuristic did not run.
C13_Witness ==
    /\ ClassifyDone("r1")
    /\ LLMResultValid("r1")
    /\ attempt["r1"].val.v.confidence.v = 85
    /\ result["r1"] = attempt["r1"]
    /\ ~InTrace("r1", "heuristic")

\* A base64 text as RFC 4648 defines it: a multiple of four characters of
\* the alphabet, the last one or two of which may be "=".
WellFormedBase64(s) ==
    /\ Len(s) % 4 = 0
    /\ \A i \in 1..Len(s) :
          \/ IndexIn(CharAt(s, i), "ABCDEFGHIJKLMNOPQRSTUVWXYZabcdefghijklmnopqrstuvwxyz0123456789+/") # 0
          \/ CharAt(s, i) = "=" /\ i > Len(s) - 2 /\ i > 2
                /\ \A j \in (i + 1)..Len(s) : CharAt(s, j) = "="

\* The text after the data-URL prefix, if the text has one.
Payload(s) ==
    IF \E i \in 1..Len(s) : CharAt(s, i) = ","
    THEN SubSeq(s, (CHOOSE i \in 1..Len(s) :
                       CharAt(s, i) = "," /\ \A j \in 1..(i - 1) : CharAt(s, j) # ",") + 1,
                Len(s))
    ELSE s

\* C14 as stated: a request whose audio_base64, after the optional
\* data-URL prefix, is malformed fails at acquisition: it never proceeds
\* to normalization and is answered 422 with a detail containing "Failed
\* to decode base64 audio".
C14_MalformedBase64Is422 ==
    \A r \in Reqs :
       (InTrace(r, "decode") /\ ~WellFormedBase64(Payload(req[r].audio_base64.v))) =>
          /\ ~InTrace(r, "convert")
          /\ pc[r] \in {"cleanup", "done"}
          /\ pc[r] = "done" =>
                /\ response[r].status = 422
                /\ Contains(response[r].detail, "Failed to decode base64 audio")

\* The position of a step in the pipeline.
Rank(step) ==
    CASE step = "controller" -> 0
      [] step \in {"download", "decode"} -> 1
      [] step = "convert" -> 2
      [] step = "extract" -> 3
      [] step = "classify" -> 4
      [] step = "provider" -> 5
      [] OTHER -> 6

\* C15: within one request the steps run in the order acquire, normalize,
\* extract, classify, each starting only after the previous one succeeded
\* (its file written, the features extracted); when one of the first
\* three fails no later step runs, the provider is not called and no
\* verdict is produced.
C15_SequentialPipeline ==
    \A r \in Reqs :
       /\ \A i, j \in 1..Len(trace[r]) : i < j => Rank(trace[r][i]) < Rank(trace[r][j])
       /\ \A i \in 2..Len(trace[r]) :
             Rank(trace[r][i]) <= 4 => Rank(trace[r][i - 1]) = Rank(trace[r][i]) - 1
       /\ pc[r] = "convert" => (exc[r].cls = "" /\ fs[temp_files[r][1]] = r)
       /\ pc[r] = "extract" => (exc[r].cls = "" /\ fs[temp_files[r][2]] = r)
       /\ pc[r] \in {"classify", "parse", "decide"} =>
             (exc[r].cls = "" /\ features[r].duration >= 0)
       /\ (exc[r].cls # "" /\ trace[r] # <<>>
           /\ Last(trace[r]) \in {"download", "decode", "convert", "extract"}) =>
             /\ pc[r] \in {"cleanup", "done"}
             /\ llm_out[r].kind = "none"
             /\ result[r].kind = "none"
             /\ pc[r] = "done" => (response[r].status # 200 /\ ~response[r].body.some)

\* Feature extraction failed after a download and a conversion: the
\* request ended 422 without a classification step.
C15_Witness ==
    /\ pc["r1"] = "done"
    /\ trace["r1"] = <<"controller", "download", "convert", "extract">>
    /\ exc["r1"].cls = "ValueError"
    /\ response["r1"].status = 422
    /\ result["r1"].kind = "none"

\* detect has minted its file names and has not yet finished.
InFlight(r) == temp_files[r] # <<>> /\ pc[r] # "done"

\* C16 as stated: no two requests handled at the same time use the same
\* temp file names; the input file a request is about to convert and the
\* WAV file it is about to analyse are the ones it wrote itself, neither
\* overwritten nor deleted by the other request.
C16_NoSharedTempFiles ==
    /\ \A a, b \in Reqs :
          (a # b /\ InFlight(a) /\ InFlight(b)) =>
             \A i \in 1..Len(temp_files[a]) : \A j \in 1..Len(temp_files[b]) :
                temp_files[a][i] # temp_files[b][j]
    /\ \A r \in Reqs :
          /\ pc[r] = "convert" => fs[temp_files[r][1]] = r
          /\ pc[r] = "extract" => fs[temp_files[r][2]] = r

\* What a failing step can leave detect raising.
StepErrors(step) ==
    CASE step = "download" ->
            {[cls |-> "ValueError", msg |-> "Failed to download audio: 404 Client Error"],
             [cls |-> "ValueError", msg |-> "Failed to download audio: Connection broken"],
             [cls |-> "OSError", msg |-> "No space left on device"]}
      [] step = "decode" ->
            {[cls |-> "ValueError", msg |-> "Failed to decode base64 audio: " \o m] :
                m \in {"Incorrect padding", "No space left on device"}}
      [] step = "convert" ->
            {[cls |-> "ValueError", msg |-> "Audio conversion failed: Invalid data found when processing input"],
             [cls |-> "ValueError", msg |-> "Audio conversion failed: ffmpeg error (see stderr output for detail)"],
             [cls |-> "FileNotFoundError", msg |-> "[Errno 2] No such file or directory: 'ffmpeg'"]}
      [] step = "extract" ->
            {[cls |-> "ValueError", msg |-> "Feature extraction failed: " \o m] :
                m \in {"Input signal length=0 is too small", "Error opening file"}}
      [] OTHER -> {}

\* C17: when the deletion of a temp file fails, the verdict classify
\* returned is still answered with 200, or the error of the failing step
\* is still the one answered, and every temp file of the request has been
\* deleted or has had its deletion attempted.
C17_CleanupFailureIsSilent ==
    \A r \in Reqs :
       rm_failed[r] # {} =>
          /\ pc[r] \in {"cleanup", "done"}
          /\ IF result[r].kind = "return"
             THEN /\ exc[r].cls = ""
                  /\ pc[r] = "done" =>
                        (response[r].status = 200 /\ response[r].body = result[r].val)
             ELSE /\ exc[r] \in StepErrors(Last(trace[r]))
                  /\ pc[r] = "done" =>
                        /\ ~response[r].body.some
                        /\ IF exc[r].cls = "ValueError"
                           THEN response[r].status = 422 /\ response[r].detail = exc[r].msg
                           ELSE response[r].status = 500
          /\ pc[r] = "done" =>
                \A i \in 1..Len(temp_files[r]) :
                   fs[temp_files[r][i]] = "absent" \/ temp_files[r][i] \in rm_failed[r]

\* Deleting the input file failed, the WAV file was deleted all the same,
\* and the verdict was answered with 200.
C17_Witness ==
    /\ pc["r1"] = "done"
    /\ response["r1"].status = 200
    /\ rm_failed["r1"] = {temp_files["r1"][1]}
    /\ fs[temp_files["r1"][1]] = "r1"
    /\ fs[temp_files["r1"][2]] = "absent"
    /\ response["r1"].body = result["r1"].val

\* C18: whenever the heuristic returns AI_GENERATED at least one rule
\* matched, so its explanation names a matched reason and never the
\* substitute text "synthetic characteristics".
C18_ReasonsNeverEmpty ==
    \A r \in Reqs :
       (/\ ClassifyDone(r)
        /\ InTrace(r, "heuristic")
        /\ result[r].val.v.classification = "AI_GENERATED") =>
          LET f == features[r]
              text == result[r].val.v.explanation
          IN /\ \/ f.pitch_variance < 1500
                \/ f.silence_ratio < 500
                \/ (30000 < f.avg_volume /\ f.avg_volume < 80000)
             /\ ~Contains(text, "synthetic characteristics")
             /\ \/ Contains(text, "consistent pitch patterns")
                \/ Contains(text, "minimal natural pauses")
                \/ Contains(text, "normalized volume levels")

\* AI_GENERATED from the pitch and volume rules: the explanation names both.
C18_Witness ==
    /\ ClassifyDone("r1")
    /\ InTrace("r1", "heuristic")
    /\ features["r1"].pitch_variance = 1499
    /\ features["r1"].silence_ratio = 500
    /\ features["r1"].avg_volume = 50000
    /\ result["r1"].val.v.explanation =
          "Audio shows consistent pitch patterns, normalized volume levels. Features suggest machine-generated speech patterns."

\* C19 as stated: the heuristic returns AI_GENERATED only for FeatureSets
\* where both the pitch rule and the silence rule matched.
C19_OnlyViaTopTwoRules ==
    \A r \in Reqs :
       (/\ ClassifyDone(r)
        /\ InTrace(r, "heuristic")
        /\ result[r].val.v.classification = "AI_GENERATED") =>
          (features[r].pitch_variance < 1500 /\ features[r].silence_ratio < 500)

\* The number of rules a FeatureSet matches.
RulesMatched(f) ==
    (IF f.pitch_variance < 1500 THEN 1 ELSE 0)
    + (IF f.silence_ratio < 500 THEN 1 ELSE 0)
    + (IF 30000 < f.avg_volume /\ f.avg_volume < 80000 THEN 1 ELSE 0)

\* C19, amended: the heuristic returns AI_GENERATED exactly for the
\* FeatureSets that match at least two of the three rules (pitch and
\* silence, pitch and volume, silence and volume, or all three), and
\* HUMAN for all others.
C19_AnyTwoRules ==
    \A r \in Reqs :
       (ClassifyDone(r) /\ InTrace(r, "heuristic")) =>
          (result[r].val.v.classification = "AI_GENERATED" <=> RulesMatched(features[r]) >= 2)

\* AI_GENERATED from the silence and volume rules alone, the pitch rule
\* not matching.
C19_Witness ==
    /\ ClassifyDone("r1")
    /\ InTrace("r1", "heuristic")
    /\ features["r1"].pitch_variance = 1500
    /\ features["r1"].silence_ratio = 499
    /\ features["r1"].avg_volume = 79999
    /\ result["r1"].val.v.classification = "AI_GENERATED"

\* C20: every result the parser returns passes the validity check and is
\* what classify returns, unless its explanation is the empty string; the
\* explanation is empty only when the reply carried "explanation": "", and
\* only then is a parsed result discarded for the heuristic's.
C20_ParsedValidUnlessEmptyExplanation ==
    \A r \in Reqs :
       (Parsed(r) /\ attempt[r].kind = "return" /\ attempt[r].val.some) =>
          LET res == attempt[r].val.v
              emptyGiven == [ty |-> "str", s |-> "", n |-> 0]
                               \in ValuesOf(llm_out[r].val.v, "explanation")
          IN /\ res.explanation # "" =>
                   /\ LLMResultValid(r)
                   /\ pc[r] = "cleanup" => (result[r] = attempt[r] /\ ~InTrace(r, "heuristic"))
             /\ res.explanation = "" <=> emptyGiven
             /\ res.explanation = "" =>
                   (pc[r] = "cleanup" =>
                       /\ InTrace(r, "heuristic")
                       /\ result[r].val.v = heuristic_classify(features[r]))

\* A reply with "explanation": "" was parsed to a result, and the
\* heuristic's result was returned in its place.
C20_Witness ==
    /\ pc["r1"] = "cleanup"
    /\ ParsedReply("r1")
    /\ attempt["r1"].val.some
    /\ attempt["r1"].val.v.classification = "AI_GENERATED"
    /\ attempt["r1"].val.v.explanation = ""
    /\ InTrace("r1", "heuristic")
    /\ result["r1"].val.v.confidence.v = 55

=============================================================================
